---- MODULE Spec2Model ----
(***************************************************************************)
(* Holt-Winters forecasting model (HwModel) of the forecast package:       *)
(* construction by HoltWinters, then Fit, Predict and Summary calls.       *)
(* A model is handed to Fit at most once (re-fitting a model is left out); *)
(* Predict and Summary are called at any point, before or after the Fit.   *)
(* A call that panics leaves the fields it had assigned and is recorded    *)
(* with outcome "panic".                                                   *)
(*                                                                         *)
(* SpecWrites adds the caller overwriting single elements of the input    *)
(* series and of the model's series after a successful Fit.  SpecHf is the *)
(* human-forecast model (HfModel): construction by HumanForecast over a    *)
(* two-column frame, then one Fit call, with the locks it takes.           *)
(*                                                                         *)
(* float64 values are modelled as exact rationals <<n, d>> with d > 0 in   *)
(* lowest terms; the observations are non-zero, so no NaN or Inf arises.   *)
(* A Go slice is a sequence; Go's 0-based index i is position i + 1.       *)
(***************************************************************************)
EXTENDS Integers, Sequences, FiniteSets, TLC

\* ------------------------------------------------------------------ bounds
\* longest input series
MaxLen == 7
\* largest seasonal period passed to Fit
MaxPeriod == 2
\* largest Range.Start passed to Fit
MaxStart == 1
\* largest Range.End passed to Fit
MaxEnd == 3
\* largest horizon passed to Predict
MaxH == 3
\* latest ctx.Err() poll at which the context may be found cancelled
MaxPoll == 5
\* most elements the caller overwrites in the series of one model
MaxWrites == 1
\* most rows of the data frame handed to HumanForecast
MaxRows == 5
\* the leading rows of the frame that vary; the rows after them are sound
MaxVaried == 2

\* ------------------------------------------------------------ float64 model
RECURSIVE GCD(_, _)
GCD(a, b) == IF b = 0 THEN a ELSE GCD(b, a % b)

Abs(x) == IF x < 0 THEN -x ELSE x

\* the rational n/d in lowest terms, d # 0
RNorm(n, d) ==
    LET g == GCD(Abs(n), Abs(d))
        s == IF d < 0 THEN -1 ELSE 1
    IN  <<(s * n) \div g, (s * d) \div g>>

R(k) == <<k, 1>>
\* sums over the least common denominator
RAdd(x, y) ==
    LET l == (x[2] \div GCD(x[2], y[2])) * y[2]
    IN  RNorm(x[1] * (l \div x[2]) + y[1] * (l \div y[2]), l)
RSub(x, y) == RAdd(x, <<-y[1], y[2]>>)
RMul(x, y) == RNorm(x[1] * y[1], x[2] * y[2])
RDiv(x, y) == RNorm(x[1] * y[2], x[2] * y[1])
RLess(x, y) == x[1] * y[2] < y[1] * x[2]
RAbs(x) == <<Abs(x[1]), x[2]>>

RECURSIVE RSum(_)
RSum(s) == IF s = <<>> THEN R(0) ELSE RAdd(Head(s), RSum(Tail(s)))

\* --------------------------------------------------------------- the inputs
\* the observations of TestSes: 1, 2, ..., 10, continued
SimpleData(n) == [i \in 1..n |-> R(i)]

\* smoothing parameters passed to Fit: below 0, the two ends, inside, above 1
Params == {<<-1, 1>>, <<0, 1>>, <<1, 2>>, <<1, 1>>, <<2, 1>>}

\* the (alpha, beta, gamma) passed to Fit: every combination of the two ends
\* of [0,1], all three inside, and each parameter in turn out of range
Ends == {<<0, 1>>, <<1, 1>>}
ParamTriples ==
    {<<a, b, g>> : a \in Ends, b \in Ends, g \in Ends}
    \cup {<<a, <<1, 2>>, <<1, 2>>>> : a \in Params \ Ends}
    \cup {<<<<1, 2>>, b, <<1, 2>>>> : b \in Params \ Ends}
    \cup {<<<<1, 2>>, <<1, 2>>, g>> : g \in Params \ Ends}

\* a *int of dataframe.Range: <<>> is nil, <<v>> points to v
StartPtrs == {<<>>} \cup {<<s>> : s \in 1..MaxStart}
EndPtrs == {<<>>} \cup {<<e>> : e \in 0..MaxEnd}

\* the variadic r of Fit: no range or one Range
RangeArgs == {<<>>} \cup {<<[Start |-> s, End |-> e]>> : s \in StartPtrs, e \in EndPtrs}

\* a context: never cancelled, or cancelled from the at-th ctx.Err() poll on
\* (at = 0: cancelled before the call)
Contexts == {[done |-> FALSE, at |-> 0]} \cup {[done |-> TRUE, at |-> k] : k \in 0..MaxPoll}

\* ctx.Err() # nil at the poll-th poll of a call (0-based)
CtxErr(ctx, poll) == ctx.done /\ ctx.at <= poll

\* ------------------------------------------------------------------ HwModel
\* the struct built by HoltWinters(s)
HoltWinters(s) ==
    [ data                 |-> s,
      trainData            |-> <<>>,
      testData             |-> <<>>,
      fcastData            |-> <<>>,
      initialSmooth        |-> R(0),
      initialTrend         |-> R(0),
      initialSeasonalComps |-> <<>>,
      smoothingLevel       |-> R(0),
      trendLevel           |-> R(0),
      seasonalComps        |-> <<>>,
      period               |-> 0,
      alpha                |-> R(0),
      beta                 |-> R(0),
      gamma                |-> R(0),
      mae                  |-> R(0),
      sse                  |-> R(0),
      rmse                 |-> [sqrt |-> R(0)],
      mape                 |-> R(0) ]

VARIABLES hm, lastRes, fitted, fitCalled, fitReads, nWrites

\* the HfModel of human_forecast.go: the model, what its Fit handed back, the
\* locks ("data": the input frame's, "train": the training copy's) still
\* held once Fit has returned, and whether Fit has been called
VARIABLES hf, hfRes, held, hfFitCalled

hfVars == <<hf, hfRes, held, hfFitCalled>>

vars == <<hm, lastRes, fitted, fitCalled, fitReads, nWrites, hfVars>>

\* -------------------------------------------------- dataframe collaborators
\* Range.Limits(length): nil Start is 0, nil End is length - 1
Limits(r, length) ==
    LET s == IF r.Start = <<>> THEN 0 ELSE r.Start[1]
        e == IF r.End = <<>> THEN length - 1 ELSE r.End[1]
    IN  IF length <= 0 \/ s < 0 \/ e < 0 \/ s > e \/ s >= length \/ e >= length
        THEN [err |-> TRUE, start |-> 0, end |-> 0]
        ELSE [err |-> FALSE, start |-> s, end |-> e]

\* values[lo:hi] of a Go slice (0-based, hi exclusive)
Slice(values, lo, hi) == SubSeq(values, lo + 1, hi)

\* NewSeriesFloat64(name, nil, vals): a new series holding the values
NewSeriesFloat64(vals) == [i \in 1..Len(vals) |-> vals[i]]

\* ---------------------------------------------------- initial-state estimator
\* mean of cycle j (0-based) of y
CycleMean(y, period, j) ==
    RDiv(RSum([k \in 1..period |-> y[j * period + k]]), R(period))

\* one offset per seasonal slot: the slot's mean deviation from its cycle mean
initialSeasonalComponents(y, period) ==
    LET nSeasons == Len(y) \div period
    IN  [i \in 1..period |->
            RDiv(RSum([j \in 1..nSeasons |->
                        RSub(y[(j - 1) * period + i], CycleMean(y, period, j - 1))]),
                 R(nSeasons))]

\* mean over the first cycle of (y[i+period] - y[i]) / period
initialTrend(y, period) ==
    RDiv(RSum([i \in 1..period |-> RDiv(RSub(y[period + i], y[i]), R(period))]),
         R(period))

\* the estimator cannot form two complete cycles
EstimatorFails(y, period) == Len(y) < 2 * period

\* ------------------------------------------------------------ accuracy scores
AbsErrors(actual, forecast) ==
    [i \in 1..Len(actual) |-> RAbs(RSub(actual[i], forecast[i]))]

SqErrors(actual, forecast) ==
    [i \in 1..Len(actual) |->
        RMul(RSub(actual[i], forecast[i]), RSub(actual[i], forecast[i]))]

MeanAbsoluteError(actual, forecast) ==
    RDiv(RSum(AbsErrors(actual, forecast)), R(Len(actual)))

SumOfSquaredErrors(actual, forecast) == RSum(SqErrors(actual, forecast))

\* the root is kept symbolic: [sqrt |-> x] is the square root of x
RootMeanSquaredError(actual, forecast) ==
    [sqrt |-> RDiv(RSum(SqErrors(actual, forecast)), R(Len(actual)))]

MeanAbsolutePercentageError(actual, forecast) ==
    RDiv(RSum([i \in 1..Len(actual) |->
                RDiv(AbsErrors(actual, forecast)[i], RAbs(actual[i]))]),
         R(Len(actual)))

\* ctx.Err() polls of one metric: one per element
MetricPolls(actual) == Len(actual)

\* ---------------------------------------------------------------- HwModel.Fit
\* what a call hands back: the outcome ("ok", "error" or "panic"), the error,
\* the arguments once Fit has validated them (at most one record), whether the
\* initial-state estimator was invoked, and the returned series (at most one)
Result(op, outcome, err, args, est, series) ==
    [op |-> op, outcome |-> outcome, err |-> err, args |-> args,
     est |-> est, series |-> series]

\* alpha, beta or gamma outside [0,1]
OutOfRange(x) == RLess(x, R(0)) \/ RLess(R(1), x)

\* the training slice with End taken as exclusive
TrainSliceExclusiveEnd(values, start, end) == Slice(values, start, end)

\* hm.data.Values[start : end+1]
TrainSlice(values, start, end) == Slice(values, start, end + 1)

\* hm.data.Values[end+1:]
TestSlice(values, end) == Slice(values, end + 1, Len(values))

\* fewer held-out observations than Fit accepts
TestTooShort(testData) == Len(testData) < 3

\* the loop over i = start..end: c holds what the loop only reads, s the
\* locals st, trnd, seasonals, the initialSmooth it stores (none or one) and
\* reads, the indices of hm.data.Values that xt := y[i] has read: y is
\* hm.data.Values[start:], so y[i] is element start + i of the input
RECURSIVE TrainLoop(_, _, _)
TrainLoop(c, i, s) ==
    IF ~(i < c.end + 1) THEN [s EXCEPT !.status = "ok"]
    ELSE IF CtxErr(c.ctx, i - c.start) THEN [s EXCEPT !.status = "ctx"]
    ELSE IF i >= Len(c.y) THEN [s EXCEPT !.status = "panic"]
    ELSE LET xt == c.y[i + 1]
             k == (i % c.period) + 1
         IN  IF i = c.start
             THEN TrainLoop(c, i + 1, [s EXCEPT !.st = xt, !.smooth = {xt},
                                                !.reads = Append(@, c.start + i)])
             ELSE LET prevSt == s.st
                      st == RAdd(RMul(c.alpha, RSub(xt, s.seasonals[k])),
                                 RMul(RSub(R(1), c.alpha), RAdd(s.st, s.trnd)))
                      prevTrnd == s.trnd
                      trnd == RAdd(RMul(c.beta, RSub(st, prevSt)),
                                   RMul(RSub(R(1), c.beta), s.trnd))
                      seas == RAdd(RMul(c.gamma, RSub(RSub(xt, prevSt), prevTrnd)),
                                   RMul(RSub(R(1), c.gamma), s.seasonals[k]))
                  IN  TrainLoop(c, i + 1,
                                [s EXCEPT !.st = st, !.trnd = trnd,
                                          !.seasonals = [s.seasonals EXCEPT ![k] = seas],
                                          !.reads = Append(@, c.start + i)])

\* the m-th held-out forecast, m = 1, 2, ...
FcastPoint(st, trnd, seasonals, period, m) ==
    RAdd(RAdd(st, RMul(R(m), trnd)), seasonals[((m - 1) % period) + 1])

\* the model after the assignments w (field |-> value) of a call
Assign(m, w) == [f \in DOMAIN m |-> IF f \in DOMAIN w THEN w[f] ELSE m[f]]

\* the code after the parameter checks; start, end come from Limits.  Yields
\* the assignments to fields of hm made before the return, the result, and
\* the indices of the input that the recursion has read
FitBody(data, a, b, g, period, start, end, ctx) ==
    LET args == {[alpha |-> a, beta |-> b, gamma |-> g, period |-> period,
                  start |-> start, end |-> end]}
        w1 == [trainData |-> NewSeriesFloat64(TrainSlice(data, start, end))]
        testData == TestSlice(data, end)
        w2 == w1 @@ [testData |-> testData, alpha |-> a, beta |-> b, gamma |-> g]
        y == Slice(data, start, end + 1)
        seasonals == initialSeasonalComponents(y, period)
        trnd == initialTrend(y, period)
        w3 == w2 @@ [initialSeasonalComps |-> initialSeasonalComponents(y, period),
                     initialTrend |-> trnd]
        tl == TrainLoop([y |-> y, start |-> start, end |-> end, period |-> period,
                         alpha |-> a, beta |-> b, gamma |-> g, ctx |-> ctx],
                        start,
                        [status |-> "run", st |-> R(0), trnd |-> trnd,
                         seasonals |-> seasonals, smooth |-> {}, reads |-> <<>>])
        w4 == IF tl.smooth = {} THEN w3
              ELSE w3 @@ [initialSmooth |-> CHOOSE x \in tl.smooth : TRUE]
        nTrain == end + 1 - start
        nTest == Len(data) - (end + 1)
        fcast == [k \in 1..nTest |-> FcastPoint(tl.st, tl.trnd, tl.seasonals, period, k)]
        w5 == w4 @@ [fcastData |-> fcast, smoothingLevel |-> tl.st,
                     trendLevel |-> tl.trnd, period |-> period,
                     seasonalComps |-> tl.seasonals]
        w6 == w5 @@ [sse |-> SumOfSquaredErrors(testData, fcast),
                     mae |-> MeanAbsoluteError(testData, fcast),
                     rmse |-> RootMeanSquaredError(testData, fcast),
                     mape |-> MeanAbsolutePercentageError(testData, fcast)]
    IN  IF TestTooShort(testData)
        THEN [w |-> w1, res |-> Result("Fit", "error", "testlen", args, FALSE, {}),
              reads |-> <<>>]
        ELSE IF EstimatorFails(y, period)
        THEN [w |-> w2, res |-> Result("Fit", "panic", "estimator", args, TRUE, {}),
              reads |-> <<>>]
        ELSE IF tl.status = "ctx"
        THEN [w |-> w4, res |-> Result("Fit", "error", "ctx", args, TRUE, {}),
              reads |-> tl.reads]
        ELSE IF tl.status = "panic"
        THEN [w |-> w4, res |-> Result("Fit", "panic", "index", args, TRUE, {}),
              reads |-> tl.reads]
        ELSE IF CtxErr(ctx, nTrain + nTest - 1)
        THEN [w |-> w4, res |-> Result("Fit", "error", "ctx", args, TRUE, {}),
              reads |-> tl.reads]
        ELSE IF CtxErr(ctx, nTrain + nTest + 4 * MetricPolls(testData) - 1)
        THEN [w |-> w5, res |-> Result("Fit", "error", "ctx", args, TRUE, {}),
              reads |-> tl.reads]
        ELSE [w |-> w6, res |-> Result("Fit", "ok", "", args, TRUE, {}),
              reads |-> tl.reads]

\* no field assigned
NoWrite == [f \in {} |-> 0]

\* Fit(ctx, a, b, g, period, r...) on a model bound to data: its assignments
\* to fields of the model and its result
FitOutcome(data, a, b, g, period, r, ctx) ==
    LET r0 == IF Len(r) = 0 THEN [Start |-> <<>>, End |-> <<>>] ELSE r[1]
        lim == Limits(r0, Len(data))
    IN  IF lim.err
        THEN [w |-> NoWrite, res |-> Result("Fit", "error", "limits", {}, FALSE, {}),
              reads |-> <<>>]
        ELSE IF lim.end - lim.start < 1
        THEN [w |-> NoWrite, res |-> Result("Fit", "error", "norange", {}, FALSE, {}),
              reads |-> <<>>]
        ELSE IF OutOfRange(a)
        THEN [w |-> NoWrite, res |-> Result("Fit", "error", "alpha", {}, FALSE, {}),
              reads |-> <<>>]
        ELSE IF OutOfRange(b)
        THEN [w |-> NoWrite, res |-> Result("Fit", "error", "beta", {}, FALSE, {}),
              reads |-> <<>>]
        ELSE IF OutOfRange(g)
        THEN [w |-> NoWrite, res |-> Result("Fit", "error", "gamma", {}, FALSE, {}),
              reads |-> <<>>]
        ELSE FitBody(data, a, b, g, period, lim.start, lim.end, ctx)

\* the outcomes of Fit on each input series, tabulated once
FitTable ==
    [n \in 0..MaxLen |-> [p \in ParamTriples |-> [period \in 1..MaxPeriod |->
        [r \in RangeArgs |-> [ctx \in Contexts |->
            FitOutcome(SimpleData(n), p[1], p[2], p[3], period, r, ctx)]]]]]

\* ------------------------------------------------------------ HwModel.Predict
\* the forecast with the seasonal slot of step m + 1
PredictPointNextSlot(st, trnd, seasonals, period, m) ==
    RAdd(RAdd(st, RMul(R(m), trnd)), seasonals[(m % period) + 1])

\* the m-th forecast appended by the loop of Predict
PredictPoint(st, trnd, seasonals, period, m) ==
    RAdd(RAdd(st, RMul(R(m), trnd)), seasonals[((m - 1) % period) + 1])

\* the loop "for range iter.N(h)" from its m-th round on; forecast holds the
\* values appended so far
RECURSIVE PredictLoop(_, _, _, _, _)
PredictLoop(model, ctx, h, m, forecast) ==
    IF m > h THEN [status |-> "ok", forecast |-> forecast]
    ELSE IF CtxErr(ctx, m - 1) THEN [status |-> "ctx", forecast |-> forecast]
    ELSE IF model.period = 0 THEN [status |-> "divide", forecast |-> forecast]
    ELSE IF (m - 1) % model.period >= Len(model.seasonalComps)
    THEN [status |-> "index", forecast |-> forecast]
    ELSE PredictLoop(model, ctx, h, m + 1,
                     Append(forecast,
                            PredictPoint(model.smoothingLevel, model.trendLevel,
                                         model.seasonalComps, model.period, m)))

\* Predict(ctx, h) on model m: its result
PredictCall(m, ctx, h) ==
    LET args == {[h |-> h]}
        loop == PredictLoop(m, ctx, h, 1, <<>>)
    IN  IF h <= 0 THEN Result("Predict", "error", "h", args, FALSE, {})
        ELSE IF loop.status = "ctx"
        THEN Result("Predict", "error", "ctx", args, FALSE, {})
        ELSE IF loop.status # "ok"
        THEN Result("Predict", "panic", loop.status, args, FALSE, {})
        ELSE Result("Predict", "ok", "", args, FALSE, {loop.forecast})

\* ------------------------------------------------------------------ HfModel
\* a row of the two-column frame: the date-time column holds a time (whole
\* hours since a Sunday midnight) or none, the value column a float or nil
GoodRow(t) == [date |-> {t}, val |-> {1}]

\* the times of the rows: two hours of one day and the same hour a week on
HfDates == {0, 1, 168}

HfRows ==
    {[date |-> {}, val |-> {1}]}
    \cup {[date |-> {t}, val |-> v] : t \in HfDates, v \in {{}, {1}}}

\* the frames handed to HumanForecast
HfFrames ==
    UNION {{[k \in 1..n |-> IF k <= MaxVaried THEN h[k] ELSE GoodRow(168)] :
                h \in [1..(IF n < MaxVaried THEN n ELSE MaxVaried) -> HfRows]} :
           n \in 0..MaxRows}

\* the Interval constants
Hourly == 0
Daily == 1
Weekly == 2

\* the struct built by HumanForecast(d)
HumanForecast(d) ==
    [ data           |-> d,
      testData       |-> <<>>,
      fcastData      |-> <<>>,
      smoothingLevel |-> R(0),
      trendLevel     |-> R(0),
      startDate      |-> {},
      endDate        |-> {},
      interval       |-> Daily,
      period         |-> 0,
      alpha          |-> R(0),
      beta           |-> R(0),
      mae            |-> R(0),
      sse            |-> R(0),
      rmse           |-> R(0),
      mape           |-> R(0) ]

\* what a call on the HfModel hands back
HfResult(op, outcome, err) == [op |-> op, outcome |-> outcome, err |-> err]

\* no HfModel is in use
NoHfModel ==
    /\ hf = HumanForecast(<<>>)
    /\ hfRes = HfResult("HumanForecast", "ok", "")
    /\ held = {}
    /\ hfFitCalled = FALSE

\* ---------------------------------------------------------------- the machine
Init ==
    /\ \E n \in 0..MaxLen : hm = HoltWinters(SimpleData(n))
    /\ lastRes = Result("HoltWinters", "ok", "", {}, FALSE, {})
    /\ fitted = FALSE
    /\ fitCalled = FALSE
    /\ fitReads = <<>>
    /\ nWrites = 0
    /\ NoHfModel

\* the one Fit call on the model; fitted records that it returned the model
Fit(a, b, g, period, r, ctx) ==
    /\ ~fitCalled
    /\ LET out == FitTable[Len(hm.data)][<<a, b, g>>][period][r][ctx]
       IN  /\ hm' = Assign(hm, out.w)
           /\ lastRes' = out.res
           /\ fitted' = (fitted \/ out.res.outcome = "ok")
           /\ fitReads' = out.reads
    /\ fitCalled' = TRUE
    /\ UNCHANGED <<nWrites, hfVars>>

\* a Predict that keeps the projected level in the model
PredictAdvancingLevel(ctx, h) ==
    /\ lastRes' = PredictCall(hm, ctx, h)
    /\ hm' = [hm EXCEPT !.smoothingLevel =
                    IF h > 0 THEN RAdd(hm.smoothingLevel, RMul(R(h), hm.trendLevel))
                    ELSE hm.smoothingLevel]
    /\ UNCHANGED <<fitted, fitCalled, fitReads, nWrites, hfVars>>

Predict(ctx, h) ==
    /\ lastRes' = PredictCall(hm, ctx, h)
    /\ UNCHANGED <<hm, fitted, fitCalled, fitReads, nWrites, hfVars>>

Summary ==
    /\ lastRes' = Result("Summary", "ok", "", {}, FALSE, {})
    /\ UNCHANGED <<hm, fitted, fitCalled, fitReads, nWrites, hfVars>>

Next ==
    \/ \E p \in ParamTriples, period \in 1..MaxPeriod, r \in RangeArgs, ctx \in Contexts :
          Fit(p[1], p[2], p[3], period, r, ctx)
    \/ \E ctx \in Contexts, h \in -1..MaxH : Predict(ctx, h)
    \/ Summary

Spec == Init /\ [][Next]_vars

\* ------------------------------------------- element writes after a fit
\* The caller, who holds the input series and the fitted model, overwrites
\* single elements of a series once Fit has returned the model.
\*
\* the value a write stores: no observation has it
NewValue == R(0)

\* testSeries.Values = hm.data.Values[end+1:]: the held-out series is the
\* tail of the input's array, element j of it is element TestOffset(m) + j
\* of the input
TestOffset(m) == Len(m.data) - Len(m.testData)

\* values[i] = v on a Go slice
SetIndex(values, i, v) == [values EXCEPT ![i + 1] = v]

\* hm.data.Values[i] = v: written through to the held-out series where the
\* two share the array; the training series was built by NewSeriesFloat64
WriteInput(i, v) ==
    /\ fitted /\ nWrites < MaxWrites
    /\ i < Len(hm.data)
    /\ hm' = [hm EXCEPT !.data = SetIndex(@, i, v),
                        !.testData = IF i >= TestOffset(hm)
                                     THEN SetIndex(@, i - TestOffset(hm), v)
                                     ELSE @]
    /\ lastRes' = Result("WriteInput", "ok", "", {}, FALSE, {})
    /\ nWrites' = nWrites + 1
    /\ UNCHANGED <<fitted, fitCalled, fitReads, hfVars>>

\* hm.trainData.Values[j] = v
WriteTrain(j, v) ==
    /\ fitted /\ nWrites < MaxWrites
    /\ j < Len(hm.trainData)
    /\ hm' = [hm EXCEPT !.trainData = SetIndex(@, j, v)]
    /\ lastRes' = Result("WriteTrain", "ok", "", {}, FALSE, {})
    /\ nWrites' = nWrites + 1
    /\ UNCHANGED <<fitted, fitCalled, fitReads, hfVars>>

\* hm.testData.Values[j] = v: written through to the input
WriteTest(j, v) ==
    /\ fitted /\ nWrites < MaxWrites
    /\ j < Len(hm.testData)
    /\ hm' = [hm EXCEPT !.testData = SetIndex(@, j, v),
                        !.data = SetIndex(@, TestOffset(hm) + j, v)]
    /\ lastRes' = Result("WriteTest", "ok", "", {}, FALSE, {})
    /\ nWrites' = nWrites + 1
    /\ UNCHANGED <<fitted, fitCalled, fitReads, hfVars>>

NextWrites ==
    \/ Next
    \/ \E i \in 0..(MaxLen - 1) : WriteInput(i, NewValue)
    \/ \E j \in 0..(MaxLen - 1) : WriteTrain(j, NewValue)
    \/ \E j \in 0..(MaxLen - 1) : WriteTest(j, NewValue)

SpecWrites == Init /\ [][NextWrites]_vars

\* ---------------------------------------------------------------- HfModel.Fit
\* the (alpha, beta) passed to HfModel.Fit: each in turn over Params
HfParamPairs ==
    {<<a, <<1, 2>>>> : a \in Params} \cup {<<<<1, 2>>, b>> : b \in Params}

\* the Range passed to HfModel.Fit
HfRanges == {[Start |-> s, End |-> e] : s \in StartPtrs, e \in EndPtrs}

\* the variadic options: none, or one with a supported or unsupported Interval
HfOptions == {<<>>} \cup {<<[Interval |-> k]>> : k \in Hourly..(Weekly + 1)}

\* getDateTime(series, row): the time at the row, an error where there is none
getDateTime(rows, row) ==
    IF row < 0 \/ row >= Len(rows) \/ rows[row + 1].date = {}
    THEN [err |-> TRUE, t |-> 0]
    ELSE [err |-> FALSE, t |-> CHOOSE t \in rows[row + 1].date : TRUE]

\* time.Hour() and time.Weekday() of a time in hours
Hour(t) == t % 24
Weekday(t) == (t \div 24) % 7

\* math.Round(hours / 168) of a duration in hours
AvailableWeeks(hours) ==
    IF hours >= 0 THEN (2 * hours + 168) \div 336
    ELSE -((2 * (-hours) + 168) \div 336)

\* period in hours and nDfSplit of the interval
HfPeriod(interval) ==
    IF interval = Hourly THEN 1 ELSE IF interval = Daily THEN 24 ELSE 168

NDfSplit(interval, startDate, endDate) ==
    IF interval = Hourly THEN 24
    ELSE IF interval = Daily THEN 7
    ELSE AvailableWeeks(endDate - startDate)

\* the row at currentDate belongs to split i
InSplit(interval, startDate, i, currentDate) ==
    IF interval = Hourly THEN Hour(currentDate) = Hour(startDate + i * 1)
    ELSE IF interval = Daily THEN Weekday(currentDate) = Weekday(startDate + i * 24)
    ELSE /\ currentDate >= startDate + i * 168
         /\ currentDate < startDate + (i + 1) * 168

\* the loop over the rows of the training copy for split i, from row on:
\* "done" when the iterator is exhausted, else the reason of the return inside
\* the loop.  poll counts the ctx.Err() polls of the call; c.interp is what
\* interpolateMissingData returns for a missing value
RECURSIVE RowLoop(_, _, _, _)
RowLoop(c, i, row, poll) ==
    IF CtxErr(c.ctx, poll) THEN [status |-> "ctx", poll |-> poll]
    ELSE IF row >= Len(c.trainData) THEN [status |-> "done", poll |-> poll + 1]
    ELSE LET currentDate == getDateTime(c.trainData, row)
         IN  IF currentDate.err THEN [status |-> "date", poll |-> poll]
             ELSE IF /\ InSplit(c.interval, c.startDate, i, currentDate.t)
                     /\ c.trainData[row + 1].val = {}
                     /\ c.interp = "error"
             THEN [status |-> "interp", poll |-> poll]
             ELSE RowLoop(c, i, row + 1, poll + 1)

\* the loop over the splits i: trainData.Lock(), the rows, trainData.Unlock().
\* Yields the status it ends with and the locks then held
RECURSIVE SplitLoop(_, _, _, _)
SplitLoop(c, i, poll, locks) ==
    IF ~(i < c.nDfSplit) THEN [status |-> "ok", locks |-> locks]
    ELSE LET locked == locks \cup {"train"}
             rows == RowLoop(c, i, 0, poll)
         IN  IF rows.status # "done"
             THEN [status |-> rows.status, locks |-> locked]
             ELSE SplitLoop(c, i + 1, rows.poll, locked \ {"train"})

\* defer hf.data.Unlock(): runs at every return
Deferred(locks) == locks \ {"data"}

\* Fit(ctx, a, b, r, options...) on model m: its assignments to fields of m,
\* its result and the locks held when it has returned
HfFitCall(m, a, b, r, options, ctx, interp) ==
    LET locks == {"data"}
        interval == IF Len(options) > 0 THEN options[1].Interval ELSE Hourly
        w0 == [interval |-> interval]
        lim == Limits(r, Len(m.data))
        w1 == w0 @@ [alpha |-> a, beta |-> b]
        trainData == Slice(m.data, lim.start, lim.end + 1)
        startDate == getDateTime(trainData, lim.start)
        endDate == getDateTime(trainData, lim.end)
        w2 == w1 @@ [startDate |-> {startDate.t}, endDate |-> {endDate.t}]
        testData == Slice(m.data, lim.end + 1, Len(m.data))
        w3 == w2 @@ [testData |-> testData]
        loop == SplitLoop([trainData |-> trainData, interval |-> interval,
                           startDate |-> startDate.t,
                           nDfSplit |-> NDfSplit(interval, startDate.t, endDate.t),
                           ctx |-> ctx, interp |-> interp], 0, 0, locks)
        w4 == w3 @@ [period |-> HfPeriod(interval)]
        Return(w, outcome, err, lk) ==
            [w |-> w, res |-> HfResult("Fit", outcome, err), held |-> Deferred(lk)]
    IN  IF lim.err THEN Return(w0, "error", "limits", locks)
        ELSE IF lim.end - lim.start < 1 THEN Return(w0, "error", "norange", locks)
        ELSE IF OutOfRange(a) THEN Return(w0, "error", "alpha", locks)
        ELSE IF OutOfRange(b) THEN Return(w0, "error", "beta", locks)
        ELSE IF startDate.err THEN Return(w1, "error", "startdate", locks)
        ELSE IF endDate.err THEN Return(w1, "error", "enddate", locks)
        ELSE IF Len(testData) < 2 THEN Return(w2, "error", "testlen", locks)
        ELSE IF interval \notin {Hourly, Daily, Weekly}
        THEN Return(w3, "error", "interval", locks)
        ELSE IF loop.status # "ok" THEN Return(w3, "error", loop.status, loop.locks)
        ELSE Return(w4, "ok", "", loop.locks)

HwModelIdle == UNCHANGED <<hm, lastRes, fitted, fitCalled, fitReads, nWrites>>

InitHf ==
    /\ hm = HoltWinters(SimpleData(0))
    /\ lastRes = Result("HoltWinters", "ok", "", {}, FALSE, {})
    /\ fitted = FALSE
    /\ fitCalled = FALSE
    /\ fitReads = <<>>
    /\ nWrites = 0
    /\ \E d \in HfFrames : hf = HumanForecast(d)
    /\ hfRes = HfResult("HumanForecast", "ok", "")
    /\ held = {}
    /\ hfFitCalled = FALSE

\* the one Fit call on the HfModel
HfFit(a, b, r, options, ctx, interp) ==
    /\ ~hfFitCalled
    /\ LET out == HfFitCall(hf, a, b, r, options, ctx, interp)
       IN  /\ hf' = Assign(hf, out.w)
           /\ hfRes' = out.res
           /\ held' = out.held
    /\ hfFitCalled' = TRUE
    /\ HwModelIdle

NextHf ==
    \E p \in HfParamPairs, r \in HfRanges, options \in HfOptions, ctx \in Contexts,
       interp \in {"ok", "error"} :
        HfFit(p[1], p[2], r, options, ctx, interp)

SpecHf == InitHf /\ [][NextHf]_vars


\* --------------------------------------------------------------- properties
\* the errors Fit reports for an empty training range, a parameter outside
\* [0,1] and a short held-out window
ValidationErrs == {"norange", "alpha", "beta", "gamma", "testlen"}

\* observations after the training range of a Fit call with arguments a
HeldOut(a) == Len(hm.data) - (a.end + 1)

\* a Fit call whose arguments a, the parameters aside, the specification
\* admits: two full cycles to train on and a context that did not fire
OthersValid(a) ==
    /\ a.period >= 1
    /\ a.end - a.start + 1 >= 2 * a.period
    /\ lastRes.err # "ctx"

\* C1: a Fit call that returns a validation error (empty training range,
\* alpha, beta or gamma outside [0,1], held-out window shorter than 3) leaves
\* every field of the model as it was before the call.
C1_ValidationErrorLeavesModel ==
    [][(lastRes'.op = "Fit" /\ lastRes'.outcome = "error"
          /\ lastRes'.err \in ValidationErrs) => hm' = hm]_vars

\* C2: a Fit call that returns the cancellation error commits no partial
\* model: no field differs from its value before the call.
C2_CancelledFitCommitsNothing ==
    [][(lastRes'.op = "Fit" /\ lastRes'.err = "ctx") => hm' = hm]_vars

\* C3: Predict with h > 0 on a model on which no Fit has succeeded returns
\* an explicit error: no forecast values, no abnormal abort.
C3_PredictUnfittedIsError ==
    (lastRes.op = "Predict" /\ ~fitted) =>
        \A a \in lastRes.args : a.h > 0 =>
            lastRes.outcome = "error" /\ lastRes.series = {}

\* C4: on a successfully fitted model Predict(h) with a context that does not
\* fire returns exactly h values for h > 0, the m-th being
\* level + m*trend + seasonalComponents[(m-1) mod period]; for h <= 0 it
\* returns a validation error and no series.
C4_PredictValues ==
    (lastRes.op = "Predict" /\ fitted) =>
        \A a \in lastRes.args :
            /\ a.h <= 0 => lastRes.outcome = "error" /\ lastRes.err = "h"
                           /\ lastRes.series = {}
            /\ (a.h > 0 /\ lastRes.err # "ctx") =>
                  /\ lastRes.outcome = "ok"
                  /\ lastRes.series =
                        {[m \in 1..a.h |->
                            RAdd(RAdd(hm.smoothingLevel, RMul(R(m), hm.trendLevel)),
                                 hm.seasonalComps[((m - 1) % hm.period) + 1])]}

\* C4 witness: a Predict on a fitted model whose horizon runs past one
\* seasonal cycle of more than one slot
C4_Witness ==
    /\ lastRes.op = "Predict" /\ fitted /\ lastRes.outcome = "ok"
    /\ hm.period > 1
    /\ \E a \in lastRes.args : a.h > hm.period

\* C5: after a successful Fit, Predict and Summary calls, succeeding or
\* failing, leave every field of the model unchanged, and a Predict repeated
\* with the same horizon returns the same values.
C5_ReadOnlyCalls ==
    [][(fitted /\ lastRes'.op \in {"Predict", "Summary"}) =>
          /\ hm' = hm
          /\ (lastRes.op = "Predict" /\ lastRes'.op = "Predict"
                /\ lastRes.outcome = "ok" /\ lastRes'.outcome = "ok"
                /\ lastRes'.args = lastRes.args)
             => lastRes'.series = lastRes.series]_vars

\* C5 witness: a Summary taken of a fitted model
C5_Witness ==
    /\ lastRes.op = "Summary" /\ fitted
    /\ Len(hm.seasonalComps) = hm.period /\ hm.period > 0

\* C6: Fit returns a validation error whenever alpha, beta or gamma is below
\* 0 or above 1 (a Fit that went past validation had all three in [0,1]),
\* and with all other inputs valid every combination of alpha, beta, gamma
\* from {0, 1} yields a successful Fit.
C6_ParameterBounds ==
    lastRes.op = "Fit" =>
        /\ (lastRes.outcome # "error" \/ lastRes.err \notin {"limits"} \cup ValidationErrs)
              => /\ lastRes.args # {}
                 /\ \A a \in lastRes.args :
                        ~OutOfRange(a.alpha) /\ ~OutOfRange(a.beta) /\ ~OutOfRange(a.gamma)
        /\ \A a \in lastRes.args :
              (/\ a.alpha \in Ends /\ a.beta \in Ends /\ a.gamma \in Ends
               /\ OthersValid(a) /\ HeldOut(a) >= 3)
              => lastRes.outcome = "ok"

\* C7: with all other inputs valid, Fit returns an error when 0, 1 or 2
\* observations follow the training range and succeeds when exactly 3 do.
C7_HeldOutWindow ==
    lastRes.op = "Fit" =>
        \A a \in lastRes.args : OthersValid(a) =>
            /\ HeldOut(a) \in 0..2 => lastRes.outcome = "error"
            /\ HeldOut(a) = 3 => lastRes.outcome = "ok"

\* C8: for alpha, beta, gamma in [0,1], period >= 1 and a training range
\* [start, end], start > 0 included, of at least 2*period observations that
\* leaves at least 3 after end, Fit with a context that does not fire
\* succeeds, seasonalComps has exactly period entries and the stored period
\* is the argument.
C8_ValidFitSucceeds ==
    lastRes.op = "Fit" =>
        \A a \in lastRes.args : (OthersValid(a) /\ HeldOut(a) >= 3) =>
            /\ lastRes.outcome = "ok"
            /\ Len(hm.seasonalComps) = a.period
            /\ hm.period = a.period

\* C9: after a successful Fit over [start, end] of n observations trainData
\* holds the input values at start..end in order, testData those at
\* end+1..n-1 in order, the two share no index, and the held-out forecast
\* is as long as testData.
C9_TrainTestPartition ==
    (lastRes.op = "Fit" /\ lastRes.outcome = "ok") =>
        \A a \in lastRes.args :
            /\ hm.trainData = [i \in 1..(a.end - a.start + 1) |-> hm.data[a.start + i]]
            /\ hm.testData = [i \in 1..(Len(hm.data) - a.end - 1) |-> hm.data[a.end + 1 + i]]
            /\ Len(hm.trainData) + Len(hm.testData) = Len(hm.data) - a.start
            /\ Len(hm.fcastData) = Len(hm.testData)

\* C9 witness: a successful Fit that trained on more than two observations
\* and held out more than three
C9_Witness ==
    /\ lastRes.op = "Fit" /\ lastRes.outcome = "ok"
    /\ Len(hm.trainData) > 2 /\ Len(hm.testData) > 3

\* C10: whenever the training slice has fewer than 2*period observations Fit
\* returns an error and the initial-state estimator is never called.
C10_EstimatorGuarded ==
    lastRes.op = "Fit" =>
        \A a \in lastRes.args : a.end - a.start + 1 < 2 * a.period =>
            lastRes.outcome = "error" /\ ~lastRes.est

\* the call reached the recursion of Fit: the estimator was invoked and
\* returned, so the loop over i = start..end was entered
ReachedRecursion ==
    /\ lastRes.op = "Fit" /\ lastRes.est
    /\ ~(lastRes.outcome = "panic" /\ lastRes.err = "estimator")

\* C11: for every training range [start, end], start > 0 included, the
\* recursion of Fit reads the input observations at indices start, start+1,
\* ..., end in that order (all of them when Fit succeeds, a prefix when it is
\* cancelled), initialSmooth is the input value at index start, and no read
\* falls outside the training slice.
C11_RecursionReadsTrainingRange ==
    ReachedRecursion =>
        \A a \in lastRes.args :
            /\ ~(lastRes.outcome = "panic" /\ lastRes.err = "index")
            /\ \A k \in 1..Len(fitReads) : fitReads[k] = a.start + (k - 1)
            /\ lastRes.outcome = "ok" => Len(fitReads) = a.end - a.start + 1
            /\ fitReads # <<>> => hm.initialSmooth = hm.data[a.start + 1]

\* C12: after a successful Fit the train and test series of the model are
\* copies: overwriting an element of the input series changes no element of
\* trainData or testData, and overwriting an element of trainData or testData
\* changes no element of the input series.
C12_SeriesAreOwnedCopies ==
    [][ /\ lastRes'.op = "WriteInput" =>
              hm'.trainData = hm.trainData /\ hm'.testData = hm.testData
        /\ lastRes'.op \in {"WriteTrain", "WriteTest"} => hm'.data = hm.data ]_vars

\* C13: HfModel.Fit releases every lock it acquires on every exit path: once
\* Fit has returned, with the model or with any error, neither the lock on
\* the input data frame nor the lock on the training copy is held.
C13_FitReleasesLocks == hfRes.op = "Fit" => held = {}

====
